---- MODULE Spec2Model ----
(***************************************************************************)
(* Model of the permission-gated hierarchical store of src/src/store.ts    *)
(* (class Store, decorator Restrict, permissions kept as reflect-metadata  *)
(* of the class prototype).                                                *)
(*                                                                         *)
(* A Store instance is a JavaScript object: its fields, including the      *)
(* class field defaultPolicy, are own properties of the instance, so the   *)
(* model keeps one property map per instance (props) and a heap of         *)
(* instances.  Field names are drawn from names that are not members of    *)
(* Store.prototype or Object.prototype.                                    *)
(***************************************************************************)
EXTENDS Integers, Sequences, FiniteSets, TLC

(***************************************************************************)
(* Bounds of the model.                                                    *)
(***************************************************************************)
MaxOps == 3          \* operations performed on the store in one behaviour
MaxNodes == 3        \* live Store instances (the root included)

(***************************************************************************)
(* JavaScript values.  Every value is a record of the same shape:          *)
(*   typ  : the kind of value                                              *)
(*   prim : the text of a string or boolean, the name of a function        *)
(*   num  : the number, or the heap id of a Store (typ "store", or the     *)
(*          Store a function returns)                                      *)
(*   ents : Object.entries of an array or plain object, in iteration       *)
(*          order, as <<path, value>> pairs                                *)
(***************************************************************************)
Val(t, p, n, e) == [typ |-> t, prim |-> p, num |-> n, ents |-> e]
Undefined == Val("undefined", "", 0, <<>>)
Null == Val("null", "", 0, <<>>)
Bool(b) == Val("boolean", IF b THEN "true" ELSE "false", 0, <<>>)
Num(n) == Val("number", "", n, <<>>)
Str(s) == Val("string", s, 0, <<>>)
Arr(e) == Val("array", "", 0, e)
Obj(e) == Val("object", "", 0, e)
StoreRef(id) == Val("store", "", id, <<>>)
\* () => 42
Const42 == Val("function", "const42", 0, <<>>)
\* let i = 0; () => ++i   (one function object, its counter is the variable count)
Counter == Val("function", "counter", 0, <<>>)
\* () => s, for the Store s with heap id
StoreThunk(id) == Val("function", "store", id, <<>>)

\* typeof v
TypeOf(v) ==
  CASE v.typ \in {"null", "array", "object", "store"} -> "object"
    [] OTHER -> v.typ

\* ToBoolean(v)
Truthy(v) ==
  CASE v.typ \in {"undefined", "null"} -> FALSE
    [] v.typ = "boolean" -> v.prim = "true"
    [] v.typ = "number" -> v.num # 0
    [] v.typ = "string" -> v.prim # ""
    [] OTHER -> TRUE

(***************************************************************************)
(* Paths are strings; the model keeps a string as the sequence of its      *)
(* tokens, a token being the separator ":" or a name without separator.    *)
(***************************************************************************)
Sep == ":"

\* path.split(":") : the segments of the path, each a string
RECURSIVE split(_)
split(path) ==
  IF path = <<>> THEN <<"">>
  ELSE LET rest == split(Tail(path)) IN
       IF Head(path) = Sep THEN <<"">> \o rest
       ELSE <<Head(path) \o Head(rest)>> \o Tail(rest)

\* keys.join(":")
RECURSIVE join(_)
join(keys) ==
  IF keys = <<>> THEN <<>>
  ELSE LET seg == IF Head(keys) = "" THEN <<>> ELSE <<Head(keys)>> IN
       IF Len(keys) = 1 THEN seg ELSE seg \o <<Sep>> \o join(Tail(keys))

\* computePath without its check of the first segment
computePath_unchecked(path) ==
  LET keys == split(path)
  IN [err |-> "", key |-> Head(keys), subPath |-> join(Tail(keys))]

\* computePath taking the second segment alone as the rest of the path
computePath_secondOnly(path) ==
  LET keys == split(path)
      key == Head(keys)
  IN IF key = ""
     THEN [err |-> "empty", key |-> "", subPath |-> <<>>]
     ELSE [err |-> "", key |-> key,
           subPath |-> IF Len(keys) = 1 THEN <<>> ELSE join(<<keys[2]>>)]

\* Store.computePath: [key, subPath], or the error "empty path not allowed"
computePath(path) ==
  LET keys == split(path)
      key == Head(keys)
  IN IF key = ""
     THEN [err |-> "empty", key |-> "", subPath |-> <<>>]
     ELSE [err |-> "", key |-> key, subPath |-> join(Tail(keys))]

(***************************************************************************)
(* State.                                                                  *)
(*   heap    : the live Store instances, by id; the root is instance 1     *)
(*   metaRef : for each class, the permissions object defined as own       *)
(*             metadata of its prototype ("none" when it has none); an     *)
(*             object is named by the class whose Restrict created it      *)
(*   metaObj : the contents of each permissions object                     *)
(*   count   : the internal counter of the function Counter                *)
(*   last    : the last call made by the caller and how it ended           *)
(*   ops     : the number of calls made so far                             *)
(***************************************************************************)
VARIABLES heap, metaRef, metaObj, count, last, ops

vars == <<heap, metaRef, metaObj, count, last, ops>>

\* type Permission = "r" | "w" | "rw" | "none"
Permission == {"r", "w", "rw", "none"}

\* The classes of the consuming program: class A extends Store, class B extends A.
Classes == {"Store", "A", "B"}

\* Object.getPrototypeOf of a class prototype
Super(c) == CASE c = "B" -> "A" [] c = "A" -> "Store" [] OTHER -> "Object"

\* the class of the root instance
RootClass == "B"
Root == 1

\* new Store(): the class field defaultPolicy = "rw" is its only own property
NewStore(cls) == [cls |-> cls, props |-> << <<"defaultPolicy", Str("rw")>> >>]

\* array index keys, which Object.entries lists first, in ascending order
IndexKeys == <<"0", "1">>

IsIndexKey(k) == \E i \in 1..Len(IndexKeys) : IndexKeys[i] = k

HasOwn(node, key) == \E i \in 1..Len(node.props) : node.props[i][1] = key

OwnValue(node, key) ==
  LET i == CHOOSE j \in 1..Len(node.props) : node.props[j][1] = key
  IN node.props[i][2]

\* Reflect.getMetadata(PERMISSION_KEY, target): own metadata, else that of the
\* prototype chain
RECURSIVE getMetadata(_, _)
getMetadata(refs, c) ==
  IF c = "Object" THEN "none"
  ELSE IF refs[c] # "none" THEN refs[c]
  ELSE getMetadata(refs, Super(c))

\* permissions[key] of the permissions object found for class c ("undefined" when
\* there is no object or no entry)
lookup(refs, objs, c, key) ==
  LET o == getMetadata(refs, c)
  IN IF o = "none" \/ key \notin DOMAIN objs[o] THEN "undefined" ELSE objs[o][key]

\* this[key]
getAttribute(h, n, key) ==
  IF HasOwn(h[n], key) THEN OwnValue(h[n], key) ELSE Undefined

\* getPermission that never consults the registered permissions
getPermission_defaultOnly(h, n, key) == getAttribute(h, n, "defaultPolicy")

\* permissions[key] || this.defaultPolicy
getPermission(h, n, key) ==
  LET p == lookup(metaRef, metaObj, h[n].cls, key)
  IN IF p # "undefined" THEN Str(p) ELSE getAttribute(h, n, "defaultPolicy")

allowedToRead(h, n, key) ==
  LET permission == getPermission(h, n, key)
  IN permission = Str("r") \/ permission = Str("rw")

allowedToWrite(h, n, key) ==
  LET permission == getPermission(h, n, key)
  IN permission = Str("w") \/ permission = Str("rw")

\* Object.defineProperty(this, key, {value, enumerable: true, writable: true}):
\* an existing property keeps its place, a new one is added last
setAttribute(h, n, key, value) ==
  LET ps == h[n].props
      new == IF HasOwn(h[n], key)
             THEN [i \in 1..Len(ps) |-> IF ps[i][1] = key THEN <<key, value>> ELSE ps[i]]
             ELSE Append(ps, <<key, value>>)
  IN [h EXCEPT ![n].props = new]

\* Object.entries(this): index keys first, then the other keys as created
ownEntries(node) ==
  LET idx == SelectSeq(IndexKeys, LAMBDA k : HasOwn(node, k))
  IN [i \in 1..Len(idx) |-> <<idx[i], OwnValue(node, idx[i])>>]
     \o SelectSeq(node.props, LAMBDA e : ~IsIndexKey(e[1]))

\* value(): the function's result and the counter after the call
invoke(f, c) ==
  CASE f.prim = "const42" -> [val |-> Num(42), count |-> c]
    [] f.prim = "counter" -> [val |-> Num(c + 1), count |-> c + 1]
    [] OTHER -> [val |-> StoreRef(f.num), count |-> c]

(***************************************************************************)
(* Store.read.  The result is [err, val, count]: err is "" on return, or   *)
(* the error thrown: "perm" (operation not allowed), "empty" (empty path   *)
(* not allowed) or "type" (a TypeError of the runtime).                    *)
(***************************************************************************)
ReadErr(e, c) == [err |-> e, val |-> Undefined, count |-> c]

\* readThisStore returning a stored function instead of calling it
readThisStore_notInvoked(h, c, n, key) ==
  IF ~allowedToRead(h, n, key) THEN ReadErr("perm", c)
  ELSE [err |-> "", val |-> getAttribute(h, n, key), count |-> c]

\* readThisStore without its permission check
readThisStore_unchecked(h, c, n, key) ==
  LET value == getAttribute(h, n, key) IN
  IF TypeOf(value) = "function"
  THEN LET r == invoke(value, c) IN [err |-> "", val |-> r.val, count |-> r.count]
  ELSE [err |-> "", val |-> value, count |-> c]

readThisStore(h, c, n, key) ==
  IF ~allowedToRead(h, n, key) THEN ReadErr("perm", c)
  ELSE LET value == getAttribute(h, n, key) IN
       IF TypeOf(value) = "function"
       THEN LET r == invoke(value, c) IN [err |-> "", val |-> r.val, count |-> r.count]
       ELSE [err |-> "", val |-> value, count |-> c]

RECURSIVE read(_, _, _, _)

\* readNestedStore answering undefined when key holds no value
readNestedStore_absent(h, c, n, subPath, key) ==
  LET value == getAttribute(h, n, key)
      r == IF TypeOf(value) = "function" THEN invoke(value, c)
           ELSE [val |-> value, count |-> c]
  IN IF r.val.typ = "store" THEN read(h, r.count, r.val.num, subPath)
     ELSE IF r.val.typ = "undefined" THEN [err |-> "", val |-> Undefined, count |-> r.count]
     ELSE ReadErr("type", r.count)

\* readNestedStore checking the read permission of key before going through it
readNestedStore_checked(h, c, n, subPath, key) ==
  LET value == getAttribute(h, n, key)
      r == IF TypeOf(value) = "function" THEN invoke(value, c)
           ELSE [val |-> value, count |-> c]
  IN IF ~allowedToRead(h, n, key) THEN ReadErr("perm", c)
     ELSE IF r.val.typ = "store" THEN read(h, r.count, r.val.num, subPath)
     ELSE ReadErr("type", r.count)

\* a value that is no Store has no method read: subStore.read(subPath) throws a
\* TypeError
readNestedStore(h, c, n, subPath, key) ==
  LET value == getAttribute(h, n, key)
      r == IF TypeOf(value) = "function" THEN invoke(value, c)
           ELSE [val |-> value, count |-> c]
  IN IF r.val.typ = "store" THEN read(h, r.count, r.val.num, subPath)
     ELSE ReadErr("type", r.count)

read(h, c, n, path) ==
  LET p == computePath(path) IN
  IF p.err # "" THEN ReadErr(p.err, c)
  ELSE IF Len(p.subPath) = 0 THEN readThisStore(h, c, n, p.key)
  ELSE readNestedStore(h, c, n, p.subPath, p.key)

(***************************************************************************)
(* Store.write.  The result is [h, err]: the heap when the call returns or *)
(* throws, and the error thrown ("" on return).                            *)
(***************************************************************************)
\* the id of the next instance created
NewId(h) == CHOOSE i \in 1..(Cardinality(DOMAIN h) + 1) : i \notin DOMAIN h

\* the heap after new Store()
Alloc(h) == h @@ (NewId(h) :> NewStore("Store"))

\* Object.entries(value) of a non-null object: the pairs of an array or plain
\* object, the own enumerable properties of a Store instance
objectEntries(h, value) ==
  IF value.typ = "store"
  THEN LET es == ownEntries(h[value.num])
       IN [i \in 1..Len(es) |-> <<(<<es[i][1]>>), es[i][2]>>]
  ELSE value.ents

RECURSIVE write(_, _, _, _)
RECURSIVE writeAll(_, _, _)

\* for (const [key, val] of entries) store.write(key, val): stops at the first throw
writeAll(h, n, es) ==
  IF es = <<>> THEN [h |-> h, err |-> ""]
  ELSE LET r == write(h, n, es[1][1], es[1][2])
       IN IF r.err # "" THEN r ELSE writeAll(r.h, n, Tail(es))

\* addToThisStore storing a Store instance it is given as it is, without copying it
addToThisStore_byReference(h, n, key, value) ==
  IF ~allowedToWrite(h, n, key) THEN [h |-> h, err |-> "perm"]
  ELSE IF TypeOf(value) = "object" /\ value.typ # "store"
  THEN LET subStore == NewId(h)
           h1 == Alloc(h)
       IN IF value.typ = "null"
          THEN [h |-> h1, err |-> "type"]
          ELSE LET r == writeAll(h1, subStore, objectEntries(h1, value))
               IN IF r.err # "" THEN r
                  ELSE [h |-> setAttribute(r.h, n, key, StoreRef(subStore)), err |-> ""]
  ELSE [h |-> setAttribute(h, n, key, value), err |-> ""]

addToThisStore(h, n, key, value) ==
  IF ~allowedToWrite(h, n, key) THEN [h |-> h, err |-> "perm"]
  ELSE IF TypeOf(value) = "object"
  THEN LET subStore == NewId(h)
           h1 == Alloc(h)
       IN IF value.typ = "null"
          THEN [h |-> h1, err |-> "type"]     \* Object.entries(null) throws
          ELSE LET r == writeAll(h1, subStore, objectEntries(h1, value))
               IN IF r.err # "" THEN r
                  ELSE [h |-> setAttribute(r.h, n, key, StoreRef(subStore)), err |-> ""]
  ELSE [h |-> setAttribute(h, n, key, value), err |-> ""]

\* addToNestedStore checking the write permission of key whether or not key holds
\* a value
addToNestedStore_checked(h, n, key, subPath, value) ==
  LET cur == getAttribute(h, n, key) IN
  IF ~allowedToWrite(h, n, key) THEN [h |-> h, err |-> "perm"]
  ELSE IF ~Truthy(cur)
  THEN LET subStore == NewId(h)
           r == write(Alloc(h), subStore, subPath, value)
       IN IF r.err # "" THEN r
          ELSE [h |-> setAttribute(r.h, n, key, StoreRef(subStore)), err |-> ""]
  ELSE IF cur.typ = "store" THEN write(h, cur.num, subPath, value)
       ELSE [h |-> h, err |-> "type"]

\* addToNestedStore storing the new child at key before writing into it
addToNestedStore_attachFirst(h, n, key, subPath, value) ==
  LET cur == getAttribute(h, n, key) IN
  IF ~Truthy(cur)
  THEN IF ~allowedToWrite(h, n, key) THEN [h |-> h, err |-> "perm"]
       ELSE LET subStore == NewId(h)
            IN write(setAttribute(Alloc(h), n, key, StoreRef(subStore)),
                     subStore, subPath, value)
  ELSE IF cur.typ = "store" THEN write(h, cur.num, subPath, value)
       ELSE [h |-> h, err |-> "type"]

addToNestedStore(h, n, key, subPath, value) ==
  LET cur == getAttribute(h, n, key) IN
  IF ~Truthy(cur)
  THEN IF ~allowedToWrite(h, n, key) THEN [h |-> h, err |-> "perm"]
       ELSE LET subStore == NewId(h)
                r == write(Alloc(h), subStore, subPath, value)
            IN IF r.err # "" THEN r
               ELSE [h |-> setAttribute(r.h, n, key, StoreRef(subStore)), err |-> ""]
  ELSE IF cur.typ = "store" THEN write(h, cur.num, subPath, value)
       ELSE [h |-> h, err |-> "type"]         \* subStore.write is not a function

write(h, n, path, value) ==
  LET p == computePath(path) IN
  IF p.err # "" THEN [h |-> h, err |-> p.err]
  ELSE IF Len(p.subPath) = 0 THEN addToThisStore(h, n, p.key, value)
  ELSE addToNestedStore(h, n, p.key, p.subPath, value)

\* writeEntries undoing the writes made before a failing one
writeEntries_atomic(h, n, obj) ==
  LET r == writeAll(h, n, objectEntries(h, obj))
  IN IF r.err # "" THEN [h |-> h, err |-> r.err] ELSE r

\* Store.writeEntries
writeEntries(h, n, obj) == writeAll(h, n, objectEntries(h, obj))

\* entries without the read check
entries_unfiltered(h, n) ==
  Obj(LET es == SelectSeq(ownEntries(h[n]), LAMBDA e : e[1] # "defaultPolicy")
      IN [i \in 1..Len(es) |-> <<(<<es[i][1]>>), es[i][2]>>])

\* Store.entries: the own properties other than defaultPolicy that may be read,
\* with their stored values
entries(h, n) ==
  Obj(LET es == SelectSeq(ownEntries(h[n]),
                          LAMBDA e : e[1] # "defaultPolicy" /\ allowedToRead(h, n, e[1]))
      IN [i \in 1..Len(es) |-> <<(<<es[i][1]>>), es[i][2]>>])

(***************************************************************************)
(* Instances no longer referenced from the root are dropped.               *)
(***************************************************************************)
\* the instances a value refers to
Refs(v) == IF v.typ = "store" \/ (v.typ = "function" /\ v.prim = "store")
           THEN {v.num} ELSE {}

Children(h, n) == UNION {Refs(h[n].props[i][2]) : i \in 1..Len(h[n].props)}

RECURSIVE Reach(_, _)
Reach(h, ns) ==
  LET more == ns \cup UNION {Children(h, n) : n \in ns}
  IN IF more = ns THEN ns ELSE Reach(h, more)

Collect(h) == [n \in Reach(h, {Root}) |-> h[n]]

(***************************************************************************)
(* The calls a caller can make.  Each is one action: the whole call, from  *)
(* entry to return or throw.                                               *)
(***************************************************************************)
Call(op, n, c, path, value, err, res) ==
  [op |-> op, node |-> n, cls |-> c, path |-> path, val |-> value,
   err |-> err, res |-> res]

\* Restrict(permission)(target, propertyKey), target being the prototype of class c
Restrict(c, key, permission) ==
  /\ ops < MaxOps
  /\ LET found == getMetadata(metaRef, c)
         o == IF found = "none" THEN c ELSE found      \* ... || {}
     IN /\ metaObj' = [metaObj EXCEPT ![o] = (key :> permission) @@ @]
        /\ metaRef' = [metaRef EXCEPT ![c] = o]
  /\ last' = Call("Restrict", 0, c, <<key>>, Str(permission), "", Undefined)
  /\ ops' = ops + 1
  /\ UNCHANGED <<heap, count>>

\* store.defaultPolicy = permission
SetDefaultPolicy(n, permission) ==
  /\ ops < MaxOps
  /\ heap' = setAttribute(heap, n, "defaultPolicy", Str(permission))
  /\ last' = Call("defaultPolicy", n, "", <<>>, Str(permission), "", Undefined)
  /\ ops' = ops + 1
  /\ UNCHANGED <<metaRef, metaObj, count>>

AllowedToRead(n, key) ==
  /\ ops < MaxOps
  /\ last' = Call("allowedToRead", n, "", <<key>>, Undefined, "",
                  Bool(allowedToRead(heap, n, key)))
  /\ ops' = ops + 1
  /\ UNCHANGED <<heap, metaRef, metaObj, count>>

AllowedToWrite(n, key) ==
  /\ ops < MaxOps
  /\ last' = Call("allowedToWrite", n, "", <<key>>, Undefined, "",
                  Bool(allowedToWrite(heap, n, key)))
  /\ ops' = ops + 1
  /\ UNCHANGED <<heap, metaRef, metaObj, count>>

Read(n, path) ==
  /\ ops < MaxOps
  /\ LET r == read(heap, count, n, path)
     IN /\ count' = r.count
        /\ last' = Call("read", n, "", path, Undefined, r.err, r.val)
  /\ ops' = ops + 1
  /\ UNCHANGED <<heap, metaRef, metaObj>>

Write(n, path, value) ==
  /\ ops < MaxOps
  /\ LET r == write(heap, n, path, value)
     IN /\ Cardinality(DOMAIN Collect(r.h)) <= MaxNodes
        /\ heap' = Collect(r.h)
        /\ last' = Call("write", n, "", path, value, r.err,
                        IF r.err = "" THEN value ELSE Undefined)
  /\ ops' = ops + 1
  /\ UNCHANGED <<metaRef, metaObj, count>>

WriteEntries(n, obj) ==
  /\ ops < MaxOps
  /\ LET r == writeEntries(heap, n, obj)
     IN /\ Cardinality(DOMAIN Collect(r.h)) <= MaxNodes
        /\ heap' = Collect(r.h)
        /\ last' = Call("writeEntries", n, "", <<>>, obj, r.err, Undefined)
  /\ ops' = ops + 1
  /\ UNCHANGED <<metaRef, metaObj, count>>

Entries(n) ==
  /\ ops < MaxOps
  /\ last' = Call("entries", n, "", <<>>, Undefined, "", entries(heap, n))
  /\ ops' = ops + 1
  /\ UNCHANGED <<heap, metaRef, metaObj, count>>

Init ==
  /\ heap = (Root :> NewStore(RootClass))
  /\ metaRef = [c \in Classes |-> "none"]
  /\ metaObj = [c \in Classes |-> [k \in {} |-> "undefined"]]
  /\ count = 0
  /\ last = Call("new", Root, RootClass, <<>>, Undefined, "", Undefined)
  /\ ops = 0

(***************************************************************************)
(* Inputs: the field names, paths and values the caller uses.              *)
(***************************************************************************)
Keys == {"a", "b", "defaultPolicy"}

\* the classes that declare fields with @Restrict: Store itself declares none
Decorated == {"A", "B"}

\* "", ":", "a", "b", "defaultPolicy", "a:", "a:b", "a::b"
Paths ==
  { <<>>, <<Sep>>, <<"a">>, <<"b">>, <<"defaultPolicy">>, <<"a", Sep>>,
    <<"a", Sep, "b">>, <<"a", Sep, Sep, "b">> }

\* 0, 1, "", false, null, [], [1]
Leaves ==
  { Num(0), Num(1), Str(""), Bool(FALSE), Null, Arr(<<>>),
    Arr(<< <<(<<"0">>), Num(1)>> >>) }

\* {a: 1, b: 2}, {a: {b: 1}, b: 2}, {a: 1, b: null}
Composites ==
  { Obj(<< <<(<<"a">>), Num(1)>>, <<(<<"b">>), Num(2)>> >>),
    Obj(<< <<(<<"a">>), Obj(<< <<(<<"b">>), Num(1)>> >>)>>, <<(<<"b">>), Num(2)>> >>),
    Obj(<< <<(<<"a">>), Num(1)>>, <<(<<"b">>), Null>> >>) }

Thunks == {Const42, Counter}

Values == Leaves \cup Composites \cup Thunks

\* the (path, value) pairs written
Writes ==
  ({<<"a">>, <<"b">>} \X Values)
    \cup ({<<"defaultPolicy">>} \X {Str("none"), Num(1)})
    \cup ({<<"a", Sep, "b">>} \X {Num(1), Null, Counter})
    \cup ({<<>>} \X Values)
    \cup ({<<Sep>>, <<"a", Sep>>, <<"a", Sep, Sep, "b">>} \X {Num(1)})

Next ==
  \/ \E c \in Decorated, k \in {"a", "b"}, p \in Permission \cup {"undefined"} :
       Restrict(c, k, p)
  \/ \E n \in DOMAIN heap, p \in Permission : SetDefaultPolicy(n, p)
  \/ \E n \in DOMAIN heap, k \in Keys : AllowedToRead(n, k)
  \/ \E n \in DOMAIN heap, k \in Keys : AllowedToWrite(n, k)
  \/ \E n \in DOMAIN heap, path \in Paths : Read(n, path)
  \/ \E n \in DOMAIN heap, w \in Writes : Write(n, w[1], w[2])
  \/ \E n \in DOMAIN heap, obj \in Composites : WriteEntries(n, obj)
  \/ \E n \in DOMAIN heap : Entries(n)

Spec == Init /\ [][Next]_vars

(***************************************************************************)
(* The caller also passes Store instances it holds: an instance of the     *)
(* tree itself, or a function returning it.                                *)
(***************************************************************************)
\* s and () => s, for every live instance s
NodeValues(h) == {StoreRef(m) : m \in DOMAIN h} \cup {StoreThunk(m) : m \in DOMAIN h}

\* {a: 1, b: v}
WithNode(v) == Obj(<< <<(<<"a">>), Num(1)>>, <<(<<"b">>), v>> >>)

\* the (path, value) pairs written besides the instances
WritesRefs ==
  ({<<"a">>, <<"b">>} \X {Num(0), Num(1), Obj(<< <<(<<"a">>), Num(1)>> >>)})
    \cup ({<<"a", Sep, "b">>, <<"b", Sep, "a">>} \X {Num(1)})
    \cup ({<<"defaultPolicy">>} \X {Str("none")})

NextRefs ==
  \/ \E k \in {"a", "b"}, p \in {"none", "w"} : Restrict(RootClass, k, p)
  \/ \E n \in DOMAIN heap, p \in {"none", "r"} : SetDefaultPolicy(n, p)
  \/ \E n \in DOMAIN heap, path \in Paths \cup {<<"b", Sep, "a">>} : Read(n, path)
  \/ \E n \in DOMAIN heap, w \in WritesRefs : Write(n, w[1], w[2])
  \/ \E n \in DOMAIN heap, path \in {<<"a">>, <<"b">>, <<"a", Sep, "b">>},
        v \in NodeValues(heap) : Write(n, path, v)
  \/ \E n \in DOMAIN heap, v \in NodeValues(heap) : WriteEntries(n, WithNode(v))

SpecRefs == Init /\ [][NextRefs]_vars

(***************************************************************************)
(* Vocabulary of the properties.                                           *)
(***************************************************************************)
\* the path is one field name, without separator
IsKey(path) == Len(path) = 1 /\ path[1] # Sep

\* the permission the specification resolves for a field of an instance: the
\* registered one when there is one, the instance's defaultPolicy otherwise
Registered(h, n, key) == lookup(metaRef, metaObj, h[n].cls, key)

Resolved(h, n, key) ==
  IF Registered(h, n, key) \in Permission
  THEN Str(Registered(h, n, key))
  ELSE OwnValue(h[n], "defaultPolicy")

IncludesRead(p) == p \in {Str("r"), Str("rw")}
IncludesWrite(p) == p \in {Str("w"), Str("rw")}

(***************************************************************************)
(* C1.  Round trip: a write(key, v) of a Leaf-compatible value v (a        *)
(* primitive, null, false, 0 and "" included, or an array) at a field that *)
(* may be read and written succeeds, and a read(key) right after it        *)
(* returns v.                                                              *)
(***************************************************************************)
C1_RoundTripStep ==
  LET c == last' IN
  (/\ c.op = "write" /\ IsKey(c.path) /\ c.val \in Leaves
   /\ IncludesRead(Resolved(heap, c.node, c.path[1]))
   /\ IncludesWrite(Resolved(heap, c.node, c.path[1])))
  => /\ c.err = ""
     /\ read(heap', count', c.node, c.path) = [err |-> "", val |-> c.val, count |-> count']

C1_RoundTrip == [][C1_RoundTripStep]_vars

(***************************************************************************)
(* C2.  Terminal access gating: a read of a single field name fails with   *)
(* the permission error unless the permission resolved for the field       *)
(* includes read, and a write of it fails with the permission error,       *)
(* changing nothing, unless it includes write; a field registered "w"      *)
(* accepts write(k, 1).                                                    *)
(***************************************************************************)
C2_GatingStep ==
  LET c == last' IN
  /\ (c.op = "read" /\ IsKey(c.path)
        /\ ~IncludesRead(Resolved(heap, c.node, c.path[1])))
     => c.err = "perm"
  /\ (c.op = "write" /\ IsKey(c.path)
        /\ ~IncludesWrite(Resolved(heap, c.node, c.path[1])))
     => (c.err = "perm" /\ heap' = heap)
  /\ (c.op = "write" /\ IsKey(c.path) /\ c.val = Num(1)
        /\ Registered(heap, c.node, c.path[1]) = "w")
     => c.err = ""

C2_TerminalGating == [][C2_GatingStep]_vars

\* a field registered "w" has been written and its read is refused, the instance's
\* defaultPolicy being "rw"
C2_Witness ==
  /\ last.op = "read" /\ IsKey(last.path) /\ last.err = "perm"
  /\ Registered(heap, last.node, last.path[1]) = "w"
  /\ OwnValue(heap[last.node], "defaultPolicy") = Str("rw")
  /\ HasOwn(heap[last.node], last.path[1])

(***************************************************************************)
(* C3.  allowedToRead(field) is true exactly when the permission resolved  *)
(* for the field (the registered one, else defaultPolicy) is "r" or "rw",  *)
(* allowedToWrite exactly when it is "w" or "rw"; neither call changes the *)
(* registry or any instance.                                               *)
(***************************************************************************)
C3_AllowedStep ==
  LET c == last' IN
  /\ c.op = "allowedToRead"
     => /\ c.res = Bool(IncludesRead(Resolved(heap, c.node, c.path[1])))
        /\ UNCHANGED <<heap, metaRef, metaObj>>
  /\ c.op = "allowedToWrite"
     => /\ c.res = Bool(IncludesWrite(Resolved(heap, c.node, c.path[1])))
        /\ UNCHANGED <<heap, metaRef, metaObj>>

C3_AllowedResolution == [][C3_AllowedStep]_vars

\* allowedToRead answers true from a registered "r" although defaultPolicy is "none"
C3_Witness ==
  /\ last.op = "allowedToRead" /\ last.res = Bool(TRUE)
  /\ Registered(heap, last.node, last.path[1]) = "r"
  /\ OwnValue(heap[last.node], "defaultPolicy") = Str("none")

(***************************************************************************)
(* C4.  The registry returns for (class, field) the permission last        *)
(* registered for that pair, and a registration for one class never        *)
(* changes what is looked up for another class.  "Another class" is read   *)
(* narrowly here, as a class that does not inherit from the registering    *)
(* one: an instance finds its permissions through the prototype chain, so  *)
(* a subclass seeing the entries of its superclass is not counted.         *)
(***************************************************************************)
RECURSIVE Inherits(_, _)
Inherits(d, c) == d # "Object" /\ (Super(d) = c \/ Inherits(Super(d), c))

C4_RegistryStep ==
  LET c == last' IN
  c.op = "Restrict"
  => /\ lookup(metaRef', metaObj', c.cls, c.path[1]) = c.val.prim
     /\ \A d \in Classes, k \in Keys :
          (d # c.cls /\ ~Inherits(d, c.cls))
          => lookup(metaRef', metaObj', d, k) = lookup(metaRef, metaObj, d, k)

C4_RegistryIsolation == [][C4_RegistryStep]_vars

(***************************************************************************)
(* C5.  read(path) and write(path, v) throw the empty-path error when the  *)
(* path is empty or starts with ":", whatever v and the state, and the     *)
(* failing call changes nothing.                                           *)
(***************************************************************************)
C5_EmptyPathStep ==
  LET c == last' IN
  (c.op \in {"read", "write"} /\ (c.path = <<>> \/ Head(c.path) = Sep))
  => (c.err = "empty" /\ UNCHANGED <<heap, metaRef, metaObj, count>>)

C5_EmptyPath == [][C5_EmptyPathStep]_vars

\* a write of a composite value at the empty path has been refused
C5_Witness ==
  /\ last.op = "write" /\ last.path = <<>> /\ last.err = "empty"
  /\ last.val \in Composites
  /\ \E k \in {"a", "b"} : HasOwn(heap[last.node], k)

(***************************************************************************)
(* C6.  Composite expansion: write(k, c) of an object-shaped value c at a  *)
(* writable field k succeeds and stores a new child instance at k, such    *)
(* that read(k:subKey) returns subVal for every leaf entry of c (nested    *)
(* objects likewise); entries() then maps k to that child when k may be    *)
(* read.                                                                   *)
(***************************************************************************)
\* the leaf entries of a composite, as <<path below the composite, value>>
RECURSIVE LeafEntries(_)
LeafEntries(v) ==
  UNION { IF v.ents[i][2].typ = "object"
          THEN { <<v.ents[i][1] \o <<Sep>> \o e[1], e[2]>> : e \in LeafEntries(v.ents[i][2]) }
          ELSE { v.ents[i] }
        : i \in 1..Len(v.ents) }

\* the entries() result has the pair <<key, value>>
HasEntry(obj, key, value) ==
  \E i \in 1..Len(obj.ents) : obj.ents[i] = <<(<<key>>), value>>

\* the heap h after the call c, a write(k, composite), is as the claim says
C6_Expanded(h, cnt, c) ==
  LET n == c.node
      k == c.path[1]
      kid == getAttribute(h, n, k)
  IN /\ c.err = ""
     /\ kid.typ = "store"
     /\ \A e \in LeafEntries(c.val) :
          read(h, cnt, n, <<k, Sep>> \o e[1]) = [err |-> "", val |-> e[2], count |-> cnt]
     /\ allowedToRead(h, n, k) => HasEntry(entries(h, n), k, kid)

C6_CompositeStep ==
  LET c == last' IN
  (/\ c.op = "write" /\ IsKey(c.path) /\ c.val.typ = "object"
   /\ IncludesWrite(Resolved(heap, c.node, c.path[1])))
  => /\ C6_Expanded(heap', count', c)
     /\ getAttribute(heap', c.node, c.path[1]).num \notin DOMAIN heap

C6_CompositeExpansion == [][C6_CompositeStep]_vars

(***************************************************************************)
(* C7.  A function stored at a field is called on every read that reaches  *)
(* it and its result is not cached: each read of a field holding Counter   *)
(* returns the next value of the counter, each read of a field holding     *)
(* Const42 returns 42, the field still holds the function afterwards, and  *)
(* no other call runs the function.                                        *)
(***************************************************************************)
\* the instance and field a read of the path ends at: the path's own field, or a
\* field of the child instance stored at its first segment
Target(h, n, path) ==
  IF IsKey(path) THEN <<n, path[1]>>
  ELSE IF Len(path) = 3 /\ path[1] # Sep /\ path[2] = Sep /\ path[3] # Sep
          /\ getAttribute(h, n, path[1]).typ = "store"
  THEN <<getAttribute(h, n, path[1]).num, path[3]>>
  ELSE <<0, "">>

C7_ThunkStep ==
  LET c == last'
      t == Target(heap, c.node, c.path)
      f == getAttribute(heap, t[1], t[2])
  IN /\ (c.op = "read" /\ t[1] # 0 /\ IncludesRead(Resolved(heap, t[1], t[2]))
           /\ f = Counter)
        => (c.err = "" /\ c.res = Num(count + 1) /\ count' = count + 1 /\ heap' = heap)
     /\ (c.op = "read" /\ t[1] # 0 /\ IncludesRead(Resolved(heap, t[1], t[2]))
           /\ f = Const42)
        => (c.err = "" /\ c.res = Num(42) /\ count' = count /\ heap' = heap)
     /\ c.op # "read" => count' = count

C7_ThunkFresh == [][C7_ThunkStep]_vars

\* the second of two reads of a field holding Counter has returned 2
C7_Witness ==
  /\ last.op = "read" /\ last.err = "" /\ last.res = Num(2) /\ count = 2
  /\ getAttribute(heap, last.node, last.path[1]) = Counter

(***************************************************************************)
(* C8.  Permission asymmetry on intermediates: write("outer:inner", v)     *)
(* through a field outer that holds a child instance makes no permission   *)
(* check on outer: it succeeds exactly when the child's own check on inner *)
(* passes, also when outer may not be written on the parent.  When outer   *)
(* holds no value, the write throws the permission error unless outer may  *)
(* be written.  With a child at outer the call ends as the child's own     *)
(* write(inner, v) does, for every v; the outcomes by permission are       *)
(* stated for the values stored as they are (a number, a function).        *)
(***************************************************************************)
\* the path is outer:inner
IsTwoKeys(path) ==
  Len(path) = 3 /\ path[1] # Sep /\ path[2] = Sep /\ path[3] # Sep

C8_AsymmetryStep ==
  LET c == last'
      n == c.node
      outer == c.path[1]
      inner == c.path[3]
      cur == getAttribute(heap, n, outer)
  IN /\ (c.op = "write" /\ IsTwoKeys(c.path) /\ cur.typ = "store")
        => c.err = write(heap, cur.num, <<inner>>, c.val).err
     /\ (c.op = "write" /\ IsTwoKeys(c.path) /\ TypeOf(c.val) # "object"
           /\ cur.typ = "store")
        => IF IncludesWrite(Resolved(heap, cur.num, inner))
           THEN /\ c.err = ""
                /\ getAttribute(heap', cur.num, inner) = c.val
                /\ getAttribute(heap', n, outer) = cur
           ELSE c.err = "perm" /\ heap' = heap
     /\ (c.op = "write" /\ IsTwoKeys(c.path) /\ TypeOf(c.val) # "object"
           /\ ~HasOwn(heap[n], outer))
        => IF IncludesWrite(Resolved(heap, n, outer))
           THEN /\ c.err = ""
                /\ getAttribute(heap', n, outer).typ = "store"
           ELSE c.err = "perm" /\ heap' = heap

C8_IntermediateAsymmetry == [][C8_AsymmetryStep]_vars

\* a write through an existing child has succeeded although the parent does not
\* allow writing the field that holds the child
C8_Witness ==
  /\ last.op = "write" /\ IsTwoKeys(last.path) /\ last.err = ""
  /\ getAttribute(heap, last.node, last.path[1]).typ = "store"
  /\ ~IncludesWrite(Resolved(heap, last.node, last.path[1]))
  /\ getAttribute(heap, getAttribute(heap, last.node, last.path[1]).num, last.path[3])
       = last.val

(***************************************************************************)
(* C9.  entries() returns the own fields of the instance, other than       *)
(* defaultPolicy, that may be read, each with its stored value as it is (a *)
(* function not called, a child instance itself); the other fields are     *)
(* left out and no error is raised.                                        *)
(***************************************************************************)
C9_EntriesReadable ==
  last.op = "entries"
  => LET n == last.node
         es == last.res.ents
     IN /\ last.err = "" /\ last.res.typ = "object"
        /\ \A k \in Keys \cup {"0", "1"} :
             IF HasOwn(heap[n], k) /\ k # "defaultPolicy"
                /\ IncludesRead(Resolved(heap, n, k))
             THEN HasEntry(last.res, k, OwnValue(heap[n], k))
             ELSE \A i \in 1..Len(es) : es[i][1] # <<k>>
        /\ \A i \in 1..Len(es) : Len(es[i][1]) = 1 /\ HasOwn(heap[n], es[i][1][1])
        /\ \A i, j \in 1..Len(es) : es[i][1] = es[j][1] => i = j

\* entries() has returned a child instance itself and left out a stored field that
\* may not be read
C9_Witness ==
  /\ last.op = "entries"
  /\ \E i \in 1..Len(last.res.ents) : last.res.ents[i][2].typ = "store"
  /\ \E k \in {"a", "b"} :
       /\ HasOwn(heap[last.node], k)
       /\ \A i \in 1..Len(last.res.ents) : last.res.ents[i][1] # <<k>>

(***************************************************************************)
(* C10.  writeEntries(entries) writes the pairs in iteration order and is  *)
(* not atomic: when the write of a pair throws, the error reaches the      *)
(* caller, the writes of the pairs before it stay, and the pairs after it  *)
(* are not written.                                                        *)
(***************************************************************************)
\* the heap after write(key, value) for the first k pairs, one after the other
RECURSIVE Applied(_, _, _, _)
Applied(h, n, es, k) ==
  IF k = 0 THEN h
  ELSE write(Applied(h, n, es, k - 1), n, es[k][1], es[k][2]).h

\* the error of the write of pair k, made after the pairs before it
ErrorAt(h, n, es, k) == write(Applied(h, n, es, k - 1), n, es[k][1], es[k][2]).err

C10_WriteEntriesStep ==
  LET c == last'
      es == c.val.ents
      bad == {k \in 1..Len(es) : ErrorAt(heap, c.node, es, k) # ""}
  IN c.op = "writeEntries"
     => IF \E i \in bad : \A k \in 1..(i - 1) : k \notin bad
        THEN LET i == CHOOSE i \in bad : \A k \in 1..(i - 1) : k \notin bad
             IN /\ c.err = ErrorAt(heap, c.node, es, i)
                /\ heap' = Collect(Applied(heap, c.node, es, i - 1))
        ELSE c.err = "" /\ heap' = Collect(Applied(heap, c.node, es, Len(es)))

C10_WriteEntriesNotAtomic == [][C10_WriteEntriesStep]_vars

\* writeEntries has thrown at its second pair and the value of its first pair is
\* stored
C10_Witness ==
  /\ last.op = "writeEntries" /\ last.err # "" /\ ops = 1
  /\ getAttribute(heap, last.node, "a") = Num(1)
  /\ ~HasOwn(heap[last.node], "b")

(***************************************************************************)
(* C11.  A read of a single field name that no write has stored on the     *)
(* instance, and that may be read, returns undefined and raises nothing.   *)
(* A name is known never to have been written when it is no own property   *)
(* of the instance, or when no call at all has been made yet.              *)
(***************************************************************************)
NeverWritten(h, n, key) == ~HasOwn(h[n], key) \/ ops = 0

C11_AbsentStep ==
  LET c == last' IN
  (/\ c.op = "read" /\ IsKey(c.path)
   /\ NeverWritten(heap, c.node, c.path[1])
   /\ IncludesRead(Resolved(heap, c.node, c.path[1])))
  => (c.err = "" /\ c.res = Undefined /\ heap' = heap)

C11_AbsentRead == [][C11_AbsentStep]_vars

(***************************************************************************)
(* C12.  A read of a path that continues after its first field name, this  *)
(* name holding no value on the instance, throws the error of a missing    *)
(* intermediate (the TypeError raised where the absent value is used as a  *)
(* Store), whatever the permissions are; it returns nothing, runs no       *)
(* stored function and changes nothing.                                    *)
(***************************************************************************)
\* the path is a field name, a separator and a non-empty remainder
NonTerminal(path) == Len(path) >= 3 /\ path[1] # Sep /\ path[2] = Sep

C12_MissingStep ==
  LET c == last' IN
  (c.op = "read" /\ NonTerminal(c.path) /\ ~HasOwn(heap[c.node], c.path[1]))
  => /\ c.err = "type" /\ c.res = Undefined
     /\ UNCHANGED <<heap, metaRef, metaObj, count>>

C12_MissingIntermediate == [][C12_MissingStep]_vars

\* a read through an absent field has thrown on an instance that holds other
\* fields and refuses every read by its permissions
C12_Witness ==
  /\ last.op = "read" /\ NonTerminal(last.path) /\ last.err = "type"
  /\ ~HasOwn(heap[last.node], last.path[1])
  /\ \E k \in {"a", "b"} : HasOwn(heap[last.node], k)
  /\ OwnValue(heap[last.node], "defaultPolicy") = Str("none")

(***************************************************************************)
(* C13.  A read of a path that continues after its first field name makes  *)
(* no permission check on that name: with a child instance stored at the   *)
(* name, or a function returning an instance (which is called), the read   *)
(* ends exactly as the child's own read of the remainder does, also when   *)
(* the name may not be read on the parent.                                 *)
(***************************************************************************)
\* the text after the first separator of a non-terminal path
Remainder(path) == SubSeq(path, 3, Len(path))

C13_TraversalStep ==
  LET c == last'
      cur == getAttribute(heap, c.node, c.path[1])
      got == [err |-> c.err, val |-> c.res, count |-> count']
  IN /\ (c.op = "read" /\ NonTerminal(c.path) /\ cur.typ = "store")
        => got = read(heap, count, cur.num, Remainder(c.path))
     /\ (c.op = "read" /\ NonTerminal(c.path)
           /\ TypeOf(cur) = "function" /\ cur.prim = "store")
        => got = read(heap, count, cur.num, Remainder(c.path))
     /\ c.op = "read" => heap' = heap

C13_TraversalUngated == [][C13_TraversalStep]_vars

\* a read through a field that holds a function returning an instance has returned
\* the value stored in that instance although the field may not be read
C13_Witness ==
  /\ last.op = "read" /\ NonTerminal(last.path) /\ last.err = ""
  /\ last.res = Num(1)
  /\ getAttribute(heap, last.node, last.path[1]) \in {StoreThunk(m) : m \in DOMAIN heap}
  /\ ~IncludesRead(Resolved(heap, last.node, last.path[1]))

(***************************************************************************)
(* C14.  A write of a path that continues after its first field name, this *)
(* name being an own field that holds something else than a child instance *)
(* (a number, 0 included, a string, "" included, false, a function),       *)
(* throws and leaves the field as it is; a child stored at the name is     *)
(* kept, and a new child is stored there only when the name is no field    *)
(* of the instance.                                                        *)
(***************************************************************************)
C14_ThroughStep ==
  LET c == last'
      n == c.node
      outer == c.path[1]
      cur == getAttribute(heap, n, outer)
  IN /\ (c.op = "write" /\ NonTerminal(c.path) /\ HasOwn(heap[n], outer)
           /\ cur.typ # "store")
        => (c.err # "" /\ heap' = heap)
     /\ (c.op = "write" /\ NonTerminal(c.path) /\ cur.typ = "store")
        => getAttribute(heap', n, outer) = cur

C14_ThroughNodeOnly == [][C14_ThroughStep]_vars

(***************************************************************************)
(* C15.  Whatever has been written, instances of the tree and composites   *)
(* holding them included, the instances form a tree: no instance is        *)
(* reached from itself through fields holding instances, the root is held  *)
(* by no field, and every other instance reached from the root is held by  *)
(* exactly one field of one instance.                                      *)
(***************************************************************************)
\* the fields that hold the instance m, as <<instance, position>>
Slots(h, m) ==
  {s \in UNION {{n} \X (1..Len(h[n].props)) : n \in DOMAIN h} :
     h[s[1]].props[s[2]][2] = StoreRef(m)}

\* the instances held by the fields of n
NodeChildren(h, n) ==
  {h[n].props[i][2].num : i \in {j \in 1..Len(h[n].props) : h[n].props[j][2].typ = "store"}}

\* the instances reached from those of ns through fields holding instances
RECURSIVE Descendants(_, _)
Descendants(h, ns) ==
  LET more == ns \cup UNION {NodeChildren(h, n) : n \in ns}
  IN IF more = ns THEN ns ELSE Descendants(h, more)

Below(h, n) == Descendants(h, NodeChildren(h, n))

C15_Tree ==
  \A m \in DOMAIN heap :
    /\ m \notin Below(heap, m)
    /\ Below(heap, m) \subseteq DOMAIN heap
    /\ m = Root => Slots(heap, m) = {}
    /\ m \in Below(heap, Root) => Cardinality(Slots(heap, m)) = 1
    /\ Cardinality(Slots(heap, m)) <= 1

\* the root instance, holding a field, has been written into one of its own fields:
\* the field holds another instance, which has a copy of the root's field
C15_Witness ==
  /\ last.op = "write" /\ last.err = "" /\ last.node = Root
  /\ last.val = StoreRef(Root) /\ IsKey(last.path)
  /\ LET kid == getAttribute(heap, Root, last.path[1])
     IN /\ kid.typ = "store" /\ kid.num # Root
        /\ \E k \in {"a", "b"} :
             /\ k # last.path[1]
             /\ HasOwn(heap[Root], k)
             /\ getAttribute(heap, kid.num, k) = getAttribute(heap, Root, k)

(***************************************************************************)
(* C16.  A write of a single field name that succeeds replaces what the    *)
(* field held and merges nothing: after write(k, c) of an object-shaped c  *)
(* onto a field that held a child instance, read(k:f) returns undefined    *)
(* for every field f of the old child that is no key of c; after           *)
(* write(k, leaf) onto a field that held a child instance, read(k), when   *)
(* permitted, returns the leaf.                                            *)
(***************************************************************************)
\* the names of the fields of an instance, defaultPolicy apart
FieldNames(node) ==
  {node.props[i][1] : i \in 1..Len(node.props)} \ {"defaultPolicy"}

C16_ReplaceStep ==
  LET c == last'
      n == c.node
      k == c.path[1]
      old == getAttribute(heap, n, k)
  IN /\ (c.op = "write" /\ IsKey(c.path) /\ c.err = "" /\ old.typ = "store"
           /\ c.val.typ = "object")
        => \A f \in FieldNames(heap[old.num]) :
             (\A i \in 1..Len(c.val.ents) : c.val.ents[i][1] # <<f>>)
             => read(heap', count', n, <<k, Sep, f>>)
                  = [err |-> "", val |-> Undefined, count |-> count']
     /\ (c.op = "write" /\ IsKey(c.path) /\ c.err = "" /\ old.typ = "store"
           /\ c.val \in Leaves /\ IncludesRead(Resolved(heap', n, k)))
        => read(heap', count', n, <<k>>) = [err |-> "", val |-> c.val, count |-> count']

C16_Replace == [][C16_ReplaceStep]_vars

(***************************************************************************)
(* C17.  Path resolution: for a path whose first segment is not empty, key *)
(* is the text before the first ":" and the remainder all the text after   *)
(* it (empty when there is no ":"), so that key, ":" and a non-empty       *)
(* remainder make the path again.  A call with "a::b" hands ":b" to the    *)
(* child at a, where it throws the empty-path error and changes nothing; a *)
(* call with "a:" ends as the same call with "a".                          *)
(***************************************************************************)
\* the position of the first separator of a path, 0 when it has none
FirstSep(path) ==
  IF \E i \in 1..Len(path) : path[i] = Sep
  THEN CHOOSE i \in 1..Len(path) : path[i] = Sep /\ \A j \in 1..(i - 1) : path[j] # Sep
  ELSE 0

Before(path) ==
  IF FirstSep(path) = 0 THEN path ELSE SubSeq(path, 1, FirstSep(path) - 1)

After(path) ==
  IF FirstSep(path) = 0 THEN <<>> ELSE SubSeq(path, FirstSep(path) + 1, Len(path))

C17_ResolveStep ==
  LET c == last'
      n == c.node
      p == computePath(c.path)
      cur == getAttribute(heap, n, c.path[1])
  IN /\ (c.op \in {"read", "write"} /\ c.path # <<>> /\ Head(c.path) # Sep)
        => /\ p.err = "" /\ <<p.key>> = Before(c.path) /\ p.subPath = After(c.path)
           /\ p.subPath # <<>> => <<p.key, Sep>> \o p.subPath = c.path
     /\ (c.op \in {"read", "write"} /\ c.path = <<"a", Sep, Sep, "b">>
           /\ cur.typ = "store")
        => (c.err = "empty" /\ heap' = heap /\ count' = count)
     /\ (c.op = "read" /\ c.path = <<"a", Sep>>)
        => [err |-> c.err, val |-> c.res, count |-> count'] = read(heap, count, n, <<"a">>)
     /\ (c.op = "write" /\ c.path = <<"a", Sep>>)
        => (c.err = write(heap, n, <<"a">>, c.val).err
            /\ heap' = Collect(write(heap, n, <<"a">>, c.val).h))

C17_PathResolution == [][C17_ResolveStep]_vars

\* a write of "a::b" has been refused with the empty-path error by the child
\* stored at a, which is as it was
C17_Witness ==
  /\ last.op = "write" /\ last.path = <<"a", Sep, Sep, "b">> /\ last.err = "empty"
  /\ getAttribute(heap, last.node, "a").typ = "store"
  /\ FieldNames(heap[getAttribute(heap, last.node, "a").num]) # {}

(***************************************************************************)
(* C18.  A write that throws, for whatever reason (an empty segment, a     *)
(* refused permission at any level, a failure while a composite is         *)
(* expanded, a value that is no Store on the way), leaves every instance   *)
(* as it was: no child built during the call stays attached.               *)
(***************************************************************************)
C18_AtomicStep ==
  LET c == last' IN
  (c.op = "write" /\ c.err # "")
  => UNCHANGED <<heap, metaRef, metaObj, count>>

C18_WriteAtomic == [][C18_AtomicStep]_vars

\* a write through a field that is absent has thrown inside the child it had
\* created, and the field is still absent
C18_Witness ==
  /\ last.op = "write" /\ NonTerminal(last.path) /\ last.err \in {"type", "empty"}
  /\ ~HasOwn(heap[last.node], last.path[1])
  /\ IncludesWrite(Resolved(heap, last.node, last.path[1]))
  /\ FieldNames(heap[last.node]) # {}

(***************************************************************************)
(* C19.  defaultPolicy is no field: no read, write, writeEntries or        *)
(* entries call, whatever its path or value (a path "defaultPolicy"        *)
(* included), changes the defaultPolicy of an instance, and every instance *)
(* created by a write has defaultPolicy "rw".                              *)
(***************************************************************************)
C19_PolicyStep ==
  LET c == last' IN
  c.op \in {"read", "write", "writeEntries", "entries"}
  => /\ \A m \in DOMAIN heap \cap DOMAIN heap' :
          getAttribute(heap', m, "defaultPolicy") = getAttribute(heap, m, "defaultPolicy")
     /\ \A m \in DOMAIN heap' \ DOMAIN heap :
          getAttribute(heap', m, "defaultPolicy") = Str("rw")

C19_PolicyOutsideFields == [][C19_PolicyStep]_vars

====
